---- MODULE Spec2Model ----
(***************************************************************************)
(* Model of the credit-scoring inference service (src/app.py).             *)
(*                                                                         *)
(* The service loads two artifacts at import time (model, scaler), then    *)
(* answers GET /, GET /health and POST /predict.  The artifacts are opaque *)
(* objects: what they expose (feature_names_in_, mean_, predict_proba,     *)
(* decision_function) is a property of the pickled file, and what a call   *)
(* on them returns or raises is chosen nondeterministically per request.   *)
(*                                                                         *)
(* No handler writes a global or shares request data with another, so one   *)
(* run of a handler is one step; what a request held is discarded when its *)
(* response is sent.                                                       *)
(*                                                                         *)
(* Numbers: probabilities are fixed point, in thousandths (0..1000).       *)
(***************************************************************************)
EXTENDS Integers, Sequences, FiniteSets, TLC

\* ------------------------------------------------------------------ bounds

\* Largest number of feature:value pairs in a request body.
MaxPayload == 2

\* ------------------------------------------------------------ JSON values

\* A JSON value of a feature.  null arrives as Python None (an object
\* column), NaN as a float NaN (a numeric column), both are "null" to pandas.
Num(n) == [t |-> "num", n |-> n]
Null   == [t |-> "null", n |-> 0]
NaN    == [t |-> "nan", n |-> 0]
Str    == [t |-> "str", n |-> 0]      \* the empty string ""

Values == {Num(35), Num(50000), Null, NaN}

FeatureNames == {"income", "age", "debt", "zip"}

Cell(name, val) == [name |-> name, val |-> val]

RECURSIVE DictsOfLen(_)
\* The Python dicts with n distinct keys, as the sequence of their items in
\* insertion order.
DictsOfLen(n) ==
    IF n = 0 THEN {<<>>}
    ELSE { Append(d, Cell(k, v)) :
             d \in DictsOfLen(n - 1), k \in FeatureNames, v \in Values }

Keys(d) == { d[i].name : i \in 1..Len(d) }

Payloads ==
    UNION { { d \in DictsOfLen(n) : Cardinality(Keys(d)) = n } : n \in 0..MaxPayload }

\* -------------------------------------------------------------- artifacts

\* feature_names_in_ of the fitted scaler and of the fitted model.
ScalerSchema == <<"income", "age", "debt">>
ModelSchema  == <<"age", "income">>

\* mean_ of the fitted scaler: one mean per feature, or (an artifact fitted
\* on other data) fewer means than names.
FullMeans  == <<40000, 40, 1200>>
ShortMeans == <<40000>>

\* model = None / scaler = None
NoModel  == [present |-> FALSE, hasNames |-> FALSE, hasProba |-> FALSE,
             hasDecision |-> FALSE]
NoScaler == [present |-> FALSE, hasNames |-> FALSE, hasMeans |-> FALSE,
             means |-> <<>>]

\* What credit_scoring_model.pkl can unpickle to.
ModelArtifacts ==
    [present : {TRUE}, hasNames : BOOLEAN, hasProba : BOOLEAN, hasDecision : BOOLEAN]

\* What scaler.pkl can unpickle to.
ScalerArtifacts ==
    [present : {TRUE}, hasNames : BOOLEAN, hasMeans : {FALSE}, means : {<<>>}]
    \cup [present : {TRUE}, hasNames : BOOLEAN, hasMeans : {TRUE},
          means : {FullMeans, ShortMeans}]

\* A file on disk: NoModel / NoScaler stand for a file joblib.load fails on.
ModelFiles  == ModelArtifacts \cup {NoModel}
ScalerFiles == ScalerArtifacts \cup {NoScaler}

\* ------------------------------------------------- schema and alignment

Range(s) == { s[i] : i \in 1..Len(s) }

NoSchema == [known |-> FALSE, names |-> <<>>]

\* Faulty variant of Expected: the model's names take priority.
ExpectedModelFirst(sc, md) ==
    IF md.present /\ md.hasNames THEN [known |-> TRUE, names |-> ModelSchema]
    ELSE IF sc.present /\ sc.hasNames THEN [known |-> TRUE, names |-> ScalerSchema]
    ELSE NoSchema

\* expected: the scaler's feature_names_in_ when the scaler is loaded and has
\* it, else the model's, else None.
Expected(sc, md) ==
    IF sc.present /\ sc.hasNames THEN [known |-> TRUE, names |-> ScalerSchema]
    ELSE IF md.present /\ md.hasNames THEN [known |-> TRUE, names |-> ModelSchema]
    ELSE NoSchema

\* Faulty variant of Base: a missing column starts as NaN, not 0.
BaseMissing(expected) == [c \in Range(expected) |-> NaN]

\* base = {col: 0 for col in expected}
Base(expected) == [c \in Range(expected) |-> Num(0)]

RECURSIVE CopyIncoming(_, _, _)
\* for col in data.columns: if col in expected: base[col] = data.iloc[0].loc[col]
\* (columns i..Len(data) still to visit).
CopyIncoming(base, data, i) ==
    IF i > Len(data) THEN base
    ELSE CopyIncoming(
           IF data[i].name \in DOMAIN base
             THEN [base EXCEPT ![data[i].name] = data[i].val]
             ELSE base,
           data, i + 1)

\* pd.DataFrame([base])[expected]: the one row, columns in the order of expected.
SelectColumns(base, expected) ==
    [i \in 1..Len(expected) |-> Cell(expected[i], base[expected[i]])]

\* Faulty variant of AlignRow: the incoming columns outside the schema are
\* kept, after the expected ones.
AlignRowKeepExtra(features, expected) ==
    IF expected.known
      THEN SelectColumns(CopyIncoming(Base(expected.names), features, 1), expected.names)
           \o SelectSeq(features, LAMBDA c : c.name \notin Range(expected.names))
      ELSE features

\* data_to_scale after column alignment.
AlignRow(features, expected) ==
    IF expected.known
      THEN SelectColumns(CopyIncoming(Base(expected.names), features, 1), expected.names)
      ELSE features

\* ------------------------------------------------------------- imputation

\* pandas isnull of one cell.
IsNull(v) == v.t \in {"null", "nan"}

\* select_dtypes(include=[np.number]) of a one-row column.
IsNumeric(v) == v.t \in {"num", "nan"}

\* data_to_scale.isnull().any().any()
AnyNull(row) == \E i \in 1..Len(row) : IsNull(row[i].val)

\* fill_values = {col: float(scaler.mean_[i]) ...}; fillna(value=fill_values).
\* Indexing past the end of mean_ raises, and the except clause passes.
MeanFill(row, expected, means) ==
    IF Len(means) < Len(expected) THEN row
    ELSE [i \in 1..Len(row) |->
            IF IsNull(row[i].val) THEN Cell(row[i].name, Num(means[i])) ELSE row[i]]

\* Fill of one null numeric column: the median of its non-null values, else 0.
FillNumeric(v) ==
    LET non_null == IF IsNull(v) THEN <<>> ELSE <<v>>
    IN  IF non_null # <<>> THEN non_null[1] ELSE Num(0)

\* Fill of one null non-numeric column: its mode; mode() of a column without a
\* non-null value is empty, [0] raises and the except clause fills "".
FillObject(v) ==
    LET non_null == IF IsNull(v) THEN <<>> ELSE <<v>>
    IN  IF non_null # <<>> THEN non_null[1] ELSE Str

\* Faulty variant of FallbackFill: the non-numeric columns are left alone.
FallbackFillNumericOnly(row) ==
    [i \in 1..Len(row) |->
       IF IsNull(row[i].val) /\ IsNumeric(row[i].val)
         THEN Cell(row[i].name, FillNumeric(row[i].val))
         ELSE row[i]]

\* The per-column fallback over the numeric, then the non-numeric columns.
FallbackFill(row) ==
    [i \in 1..Len(row) |->
       IF ~IsNull(row[i].val) THEN row[i]
       ELSE IF IsNumeric(row[i].val) THEN Cell(row[i].name, FillNumeric(row[i].val))
       ELSE Cell(row[i].name, FillObject(row[i].val))]

\* The imputation cascade, run only when a null is left after alignment.
Impute(row, sc, expected) ==
    IF ~AnyNull(row) THEN row
    ELSE LET filled == IF sc.present /\ sc.hasMeans /\ expected.known
                         THEN MeanFill(row, expected.names, sc.means)
                         ELSE row
         IN  IF AnyNull(filled) THEN FallbackFill(filled) ELSE filled

\* ------------------------------------------------------------ probability

\* 1000 * e^x, rounded, for the exponents the decision scores below need.
ExpMilli(x) ==
    CASE x = -2 -> 135
      [] x = -1 -> 368
      [] x = 0  -> 1000
      [] x = 1  -> 2718
      [] x = 2  -> 7389

\* Faulty variant of Sigmoid: the sign of the exponent is lost.
SigmoidSignLost(score) == (1000 * 1000) \div (1000 + ExpMilli(score))

\* 1.0 / (1.0 + np.exp(-score)), in thousandths.
Sigmoid(score) == (1000 * 1000) \div (1000 + ExpMilli(0 - score))

\* probability = None / a float
NoProbability == [isNull |-> TRUE, milli |-> 0]
Probability(milli) == [isNull |-> FALSE, milli |-> milli]

\* What one call on an opaque artifact does: raise, or return v.
Raises     == [raises |-> TRUE, v |-> 0]
Returns(v) == [raises |-> FALSE, v |-> v]
NotCalled  == Returns(0)

\* The outcomes of the calls one request can make on the loaded artifacts:
\* scaler.transform, model.predict (a label), model.predict_proba (the
\* positive-class probability, in thousandths), model.decision_function.
Outcomes(sc, md) ==
    [transform : IF sc.present THEN {Returns(0), Raises} ELSE {NotCalled},
     predict   : IF md.present THEN {Returns(0), Returns(1), Raises} ELSE {NotCalled},
     proba     : IF md.present /\ md.hasProba
                   THEN {Returns(250), Raises} ELSE {NotCalled},
     decision  : IF md.present /\ md.hasDecision
                   THEN {Returns(-1), Returns(2), Raises} ELSE {NotCalled}]

\* The first probability source: predict_proba when the model has it; a raise
\* leaves probability at None.
FromProba(md, oc) ==
    IF md.hasProba /\ ~oc.proba.raises THEN Probability(oc.proba.v) ELSE NoProbability

\* The second source, consulted only while probability is None: the sigmoid of
\* decision_function when the model has it.
FromDecision(md, oc) ==
    IF md.hasDecision /\ ~oc.decision.raises
      THEN Probability(Sigmoid(oc.decision.v)) ELSE NoProbability

\* default_probability, the model methods called to get it and what each
\* call did.
DeriveProbability(md, oc) ==
    LET first == FromProba(md, oc)
        tried == IF md.hasProba THEN {"predict_proba"} ELSE {}
        seen  == IF md.hasProba THEN oc.proba ELSE NotCalled
    IN  IF ~first.isNull
          THEN [probability |-> first, calls |-> tried,
                proba |-> seen, decision |-> NotCalled]
          ELSE [probability |-> FromDecision(md, oc),
                calls |-> tried \cup (IF md.hasDecision THEN {"decision_function"} ELSE {}),
                proba |-> seen,
                decision |-> IF md.hasDecision THEN oc.decision ELSE NotCalled]

\* -------------------------------------------------------------- responses

Response(status, keys, error, prediction, probability) ==
    [status |-> status, keys |-> keys, error |-> error,
     prediction |-> prediction, probability |-> probability,
     state |-> "", model_loaded |-> FALSE]

\* A body {"status": state, "model_loaded": loaded}.
StatusBody(status, state, loaded) ==
    [status |-> status, keys |-> {"status", "model_loaded"}, error |-> "",
     prediction |-> 0, probability |-> NoProbability,
     state |-> state, model_loaded |-> loaded]

\* FileResponse(index_path)
IndexPage ==
    [status |-> 200, keys |-> {"index.html"}, error |-> "",
     prediction |-> 0, probability |-> NoProbability,
     state |-> "", model_loaded |-> FALSE]

NoResponse == Response(0, {}, "", 0, NoProbability)

\* return {"default_prediction": ..., "default_probability": ...}
PredictionResult(prediction, probability) ==
    Response(200, {"default_prediction", "default_probability"}, "",
             prediction, probability)

\* return {"error": "model not loaded"}
ModelNotLoaded == Response(200, {"error"}, "model not loaded", 0, NoProbability)

\* Faulty variant of Caught: the exception leaves the handler and the
\* framework answers 500.
Uncaught(e) == Response(500, {"detail"}, e, 0, NoProbability)

\* except Exception as e: return {"error": str(e), "trace": ...}
Caught(e) == Response(200, {"error", "trace"}, e, 0, NoProbability)

\* The framework's answer to a body the AnyDict wrapper does not validate:
\* FastAPI answers a request validation error with 422, before the handler.
ValidationError == Response(422, {"detail"}, "value is not a valid dict", 0, NoProbability)

\* What one run of the handler leaves behind: the response, the schema it
\* resolved, the row after alignment, the row handed to the scaling step (when
\* the run got there), the model methods called and what the two probability
\* calls did.
Run(resp, expected, aligned, scaled, row, calls, proba, decision) ==
    [resp |-> resp, expected |-> expected, aligned |-> aligned, scaled |-> scaled,
     row |-> row, calls |-> calls, proba |-> proba, decision |-> decision]

\* The run of a handler that stopped with response resp.
Stopped(resp, expected, aligned, scaled, row, calls) ==
    Run(resp, expected, aligned, scaled, row, calls, NotCalled, NotCalled)

\* Faulty variant of Classify: predict is called without the model check; on
\* None the call raises.
ClassifyUnchecked(md, oc, expected, aligned, row) ==
    IF ~md.present \/ oc.predict.raises
      THEN Stopped(Caught("predict failed"), expected, aligned, TRUE, row, {"predict"})
    ELSE LET p == DeriveProbability(md, oc)
         IN  Run(PredictionResult(oc.predict.v, p.probability), expected, aligned,
                 TRUE, row, {"predict"} \cup p.calls, p.proba, p.decision)

\* Lines 125-146: the model check, the label and the probability.
Classify(md, oc, expected, aligned, row) ==
    IF ~md.present THEN Stopped(ModelNotLoaded, expected, aligned, TRUE, row, {})
    ELSE IF oc.predict.raises
      THEN Stopped(Caught("predict failed"), expected, aligned, TRUE, row, {"predict"})
    ELSE LET p == DeriveProbability(md, oc)
         IN  Run(PredictionResult(oc.predict.v, p.probability), expected, aligned,
                 TRUE, row, {"predict"} \cup p.calls, p.proba, p.decision)

\* Lines 121-124, then Classify: the row goes through scaler.transform when a
\* scaler is loaded, else its values are used as they are.
ScaleAndClassify(sc, md, oc, expected, aligned, row) ==
    IF sc.present /\ oc.transform.raises
      THEN Stopped(Caught("transform failed"), expected, aligned, TRUE, row, {})
      ELSE Classify(md, oc, expected, aligned, row)

\* predict_default(payload): isDict is isinstance(features, dict).
predict_default(isDict, features, sc, md, oc) ==
    IF ~isDict
      THEN \* the HTTPException(400) is raised inside the try block and caught
           Stopped(Caught("payload must be a JSON object of feature:value pairs"),
                   NoSchema, <<>>, FALSE, <<>>, {})
      ELSE LET expected == Expected(sc, md)
               aligned == AlignRow(features, expected)
               data_to_scale == Impute(aligned, sc, expected)
           IN  ScaleAndClassify(sc, md, oc, expected, aligned, data_to_scale)

\* ------------------------------------------------------------------ state

VARIABLES
    modelFile,    \* what credit_scoring_model.pkl holds (NoModel: not loadable)
    scalerFile,   \* what scaler.pkl holds (NoScaler: not loadable)
    started,      \* the module has been imported
    model,        \* the global model
    scaler,       \* the global scaler
    pc,           \* "idle", or "responded": a handler has returned
    req,          \* the request being answered
    run,          \* what the handler left behind (request scoped)
    resp          \* the HTTP response

vars == <<modelFile, scalerFile, started, model, scaler, pc, req, run, resp>>

Request(endpoint, kind, features) ==
    [endpoint |-> endpoint, kind |-> kind, features |-> features]

NoRequest == Request("", "", <<>>)
NoRun     == Stopped(NoResponse, NoSchema, <<>>, FALSE, <<>>, {})

\* The JSON values that are not objects.
NonObjectKinds == {"array", "string", "number", "null"}

Init ==
    /\ modelFile \in ModelFiles
    /\ scalerFile \in ScalerFiles
    /\ started = FALSE
    /\ model = NoModel
    /\ scaler = NoScaler
    /\ pc = "idle"
    /\ req = NoRequest
    /\ run = NoRun
    /\ resp = NoResponse

\* Lines 25-31: both loads sit in one try block, the model's first.
Startup ==
    /\ ~started
    /\ started' = TRUE
    /\ IF modelFile.present
         THEN /\ model' = modelFile
              /\ scaler' = IF scalerFile.present THEN scalerFile ELSE NoScaler
         ELSE /\ model' = NoModel
              /\ scaler' = NoScaler
    /\ UNCHANGED <<modelFile, scalerFile, pc, req, run, resp>>

\* GET /: the landing page when static/index.html exists, else a status dict,
\* which the route's HTMLResponse class cannot render (a dict has no encode).
root ==
    /\ started /\ pc = "idle"
    /\ \E exists \in BOOLEAN :
         resp' = IF exists THEN IndexPage
                 ELSE StatusBody(500, "running", model.present)
    /\ req' = Request("root", "", <<>>)
    /\ pc' = "responded"
    /\ UNCHANGED <<modelFile, scalerFile, started, model, scaler, run>>

\* GET /health
health ==
    /\ started /\ pc = "idle"
    /\ resp' = StatusBody(200, "ok", model.present)
    /\ req' = Request("health", "", <<>>)
    /\ pc' = "responded"
    /\ UNCHANGED <<modelFile, scalerFile, started, model, scaler, run>>

\* Faulty variant of PredictObject: a request that ends in an error body
\* drops the global model.
PredictObjectDropsModel ==
    /\ started /\ pc = "idle"
    /\ \E features \in Payloads, oc \in Outcomes(scaler, model) :
         /\ req' = Request("predict", "object", features)
         /\ run' = predict_default(TRUE, features, scaler, model, oc)
         /\ resp' = run'.resp
    /\ model' = IF "error" \in resp'.keys THEN NoModel ELSE model
    /\ pc' = "responded"
    /\ UNCHANGED <<modelFile, scalerFile, started, scaler>>

\* POST /predict with a JSON object: the wrapper validates, the handler runs.
PredictObject ==
    /\ started /\ pc = "idle"
    /\ \E features \in Payloads, oc \in Outcomes(scaler, model) :
         /\ req' = Request("predict", "object", features)
         /\ run' = predict_default(TRUE, features, scaler, model, oc)
         /\ resp' = run'.resp
    /\ pc' = "responded"
    /\ UNCHANGED <<modelFile, scalerFile, started, model, scaler>>

\* POST /predict with a JSON value that is no object: the AnyDict wrapper
\* rejects the body and the handler does not run.
PredictRejected ==
    /\ started /\ pc = "idle"
    /\ \E kind \in NonObjectKinds : req' = Request("predict", kind, <<>>)
    /\ resp' = ValidationError
    /\ pc' = "responded"
    /\ UNCHANGED <<modelFile, scalerFile, started, model, scaler, run>>

\* predict_default called with a payload whose __root__ is no dict (the
\* wrapper built without validation): the handler's own check runs.
PredictUnvalidated ==
    /\ started /\ pc = "idle"
    /\ \E kind \in NonObjectKinds, oc \in Outcomes(scaler, model) :
         /\ req' = Request("predict_default", kind, <<>>)
         /\ run' = predict_default(FALSE, <<>>, scaler, model, oc)
         /\ resp' = run'.resp
    /\ pc' = "responded"
    /\ UNCHANGED <<modelFile, scalerFile, started, model, scaler>>

\* The response is sent; what the request held is discarded.
SendResponse ==
    /\ pc = "responded"
    /\ pc' = "idle"
    /\ req' = NoRequest
    /\ run' = NoRun
    /\ resp' = NoResponse
    /\ UNCHANGED <<modelFile, scalerFile, started, model, scaler>>

Next ==
    \/ Startup
    \/ root
    \/ health
    \/ PredictObject
    \/ PredictRejected
    \/ PredictUnvalidated
    \/ SendResponse

Spec == Init /\ [][Next]_vars

\* ================================================================ claims

\* A /predict request with a JSON object body has been answered.
ObjectAnswered == pc = "responded" /\ req.endpoint = "predict" /\ req.kind = "object"

\* A request with a body that is no JSON object has been answered, through
\* the wrapper or by the handler itself.
NonObjectAnswered == pc = "responded" /\ req.kind \in NonObjectKinds

\* The value a payload gives for a name it contains.
ValueOf(features, k) == features[CHOOSE i \in 1..Len(features) : features[i].name = k].val

PredictionKeys == {"default_prediction", "default_probability"}
ErrorTraceKeys == {"error", "trace"}

\* ---- C1: every /predict request whose body is not a JSON object is answered
\* with HTTP 400, by the wrapper's rejection and by the handler's own check.
C1_NonObjectIs400 == NonObjectAnswered => resp.status = 400

\* ---- C2 as stated: every JSON-object payload is answered with HTTP 200 and
\* a body of one of exactly two shapes, {default_prediction,
\* default_probability} or {error, trace}.
C2_TwoShapes ==
    ObjectAnswered => /\ resp.status = 200
                      /\ resp.keys \in {PredictionKeys, ErrorTraceKeys}

\* ---- C2 amended: every JSON-object payload is answered with HTTP 200 and a
\* body of one of three shapes: {default_prediction, default_probability},
\* {error, trace}, or {error} alone, the last exactly when the model is absent
\* and no earlier step raised (its error is "model not loaded").
C2_ThreeShapes ==
    ObjectAnswered =>
      /\ resp.status = 200
      /\ resp.keys \in {PredictionKeys, ErrorTraceKeys, {"error"}}
      /\ resp.keys = {"error"} => (~model.present /\ resp.error = "model not loaded")

\* C2 witness: an object payload answered with the third shape.
C2_Witness == ObjectAnswered /\ resp.keys = {"error"} /\ Len(req.features) > 0

\* ---- C3: whenever the model is absent, every JSON-object payload is
\* answered with HTTP 200 and the body {error: "model not loaded"}, and no
\* method of the model (predict, predict_proba, decision_function) is called.
C3_ModelAbsent ==
    (ObjectAnswered /\ ~model.present) =>
      /\ resp.status = 200
      /\ resp.keys = {"error"}
      /\ resp.error = "model not loaded"
      /\ run.calls = {}

\* C3 witness: the model file did not load and a non-empty payload was answered.
C3_Witness ==
    ObjectAnswered /\ ~model.present /\ Len(req.features) > 0
    /\ resp.error = "model not loaded"

\* ---- C4: after startup each artifact is absent exactly when its own load
\* failed; the load outcome of one does not change the state of the other.
C4_IndependentLoads ==
    started => /\ model.present = modelFile.present
               /\ scaler.present = scalerFile.present

\* ---- C5: after startup no request changes the model or the scaler, and
\* every health call answers {status: "ok", model_loaded: b} with HTTP 200,
\* b true iff the model was loaded at startup.
C5_ArtifactsReadOnly ==
    [][ /\ started => (model' = model /\ scaler' = scaler)
        /\ (pc' = "responded" /\ req'.endpoint = "health")
             => resp' = StatusBody(200, "ok", modelFile.present) ]_vars

\* C5 witness: a health call answered with model_loaded true.
C5_Witness ==
    pc = "responded" /\ req.endpoint = "health" /\ resp.model_loaded /\ model.present

\* ---- C6: when the expected schema is known, the aligned row has exactly the
\* expected names as columns, in schema order; each holds the payload's value
\* when the payload contains the name and 0 otherwise; payload names outside
\* the schema do not appear.
C6_AlignedRow ==
    (ObjectAnswered /\ run.expected.known) =>
      LET e == run.expected.names
          a == run.aligned
      IN  /\ Len(a) = Len(e)
          /\ \A i \in 1..Len(e) :
               /\ a[i].name = e[i]
               /\ a[i].val = IF e[i] \in Keys(req.features)
                               THEN ValueOf(req.features, e[i]) ELSE Num(0)

\* C6 witness: a payload with one name of the schema and one outside it.
C6_Witness ==
    /\ ObjectAnswered /\ run.expected.known
    /\ Len(req.features) = 2
    /\ \E i, j \in 1..2 : /\ req.features[i].name \in Range(run.expected.names)
                           /\ req.features[j].name \notin Range(run.expected.names)
    /\ Keys(run.aligned) = Range(run.expected.names)

\* ---- C7: the row handed to the scaling step contains no null/NaN, for
\* every payload and artifact state, also when the mean-based fill raises.
C7_NoNullReachesScaling ==
    run.scaled => \A i \in 1..Len(run.row) : run.row[i].val.t \notin {"null", "nan"}

\* C7 witness: a payload with a null and a NaN reached scaling with a scaler
\* that has fewer means than expected names.
C7_Witness ==
    /\ ObjectAnswered /\ run.scaled
    /\ scaler.hasMeans /\ Len(scaler.means) < Len(run.expected.names)
    /\ \E i, j \in 1..Len(run.aligned) :
         run.aligned[i].val = Null /\ run.aligned[j].val = NaN

\* The scenario of C8: schema income, age, debt from a scaler whose training
\* mean for debt is 1200, payload {"income": 50000, "age": 35}.
C8_Scenario ==
    /\ ObjectAnswered /\ run.scaled
    /\ scaler.present /\ scaler.hasNames /\ scaler.hasMeans /\ scaler.means = FullMeans
    /\ req.features = <<Cell("income", Num(50000)), Cell("age", Num(35))>>

\* ---- C8 as stated: in the scenario the row that reaches scaling is
\* {income: 50000, age: 35, debt: 1200}.
C8_AbsentGetsMean ==
    C8_Scenario =>
      run.row = <<Cell("income", Num(50000)), Cell("age", Num(35)), Cell("debt", Num(1200))>>

\* ---- C8 amended: in the scenario the row that reaches scaling is
\* {income: 50000, age: 35, debt: 0}.  With that scaler an expected feature
\* absent from the payload keeps the alignment default 0; the training mean
\* fills only an expected feature the payload gives as null.
C8_AbsentStaysZero ==
    /\ C8_Scenario =>
         run.row = <<Cell("income", Num(50000)), Cell("age", Num(35)), Cell("debt", Num(0))>>
    /\ (/\ ObjectAnswered /\ run.scaled
        /\ scaler.present /\ scaler.hasNames /\ scaler.hasMeans
        /\ scaler.means = FullMeans) =>
         \A i \in 1..Len(ScalerSchema) :
           run.row[i] = Cell(ScalerSchema[i],
                             IF ScalerSchema[i] \notin Keys(req.features) THEN Num(0)
                             ELSE IF ValueOf(req.features, ScalerSchema[i]).t \in {"null", "nan"}
                               THEN Num(FullMeans[i])
                             ELSE ValueOf(req.features, ScalerSchema[i]))

\* C8 witness: the scenario, answered.
C8_Witness == C8_Scenario /\ run.row[3] = Cell("debt", Num(0))

\* ---- C9: in a successful prediction response default_probability is null
\* only when neither source yields a value; when predict_proba succeeds its
\* value is returned and decision_function is not consulted; when only
\* decision_function succeeds the value is 1/(1+e^(-score)); a failure of
\* either method never turns the response into an error body.
C9_Probability ==
    /\ (ObjectAnswered /\ resp.keys = PredictionKeys) =>
         LET probaOk    == "predict_proba" \in run.calls /\ ~run.proba.raises
             decisionOk == "decision_function" \in run.calls /\ ~run.decision.raises
             p          == resp.probability
         IN  /\ ("predict_proba" \in run.calls) = model.hasProba
             /\ probaOk => /\ p = Probability(run.proba.v)
                           /\ "decision_function" \notin run.calls
             /\ ~probaOk => ("decision_function" \in run.calls) = model.hasDecision
             /\ (~probaOk /\ decisionOk) =>
                  /\ ~p.isNull
                  \* p.milli is 1000/(1 + e^(-score)) rounded down
                  /\ p.milli * (1000 + ExpMilli(0 - run.decision.v)) <= 1000 * 1000
                  /\ (p.milli + 1) * (1000 + ExpMilli(0 - run.decision.v)) > 1000 * 1000
             /\ p.isNull = (~probaOk /\ ~decisionOk)
    /\ (ObjectAnswered /\ (run.proba.raises \/ run.decision.raises)) =>
         resp.keys = PredictionKeys

\* C9 witness: predict_proba raised and the sigmoid of the decision score
\* was returned.
C9_Witness ==
    /\ ObjectAnswered /\ resp.keys = PredictionKeys
    /\ run.proba.raises /\ run.decision = Returns(2)
    /\ ~resp.probability.isNull

\* ---- C10: the schema is the scaler's name list when the scaler is present
\* and has one, else the model's when the model is present and has one, else
\* unknown; with no schema the row is the payload's own keys and values in
\* their order, and an empty payload gives a row of zero columns and still
\* gets a response.
C10_SchemaPriority ==
    ObjectAnswered =>
      /\ (scaler.present /\ scaler.hasNames) =>
           run.expected = [known |-> TRUE, names |-> ScalerSchema]
      /\ (~(scaler.present /\ scaler.hasNames) /\ model.present /\ model.hasNames) =>
           run.expected = [known |-> TRUE, names |-> ModelSchema]
      /\ (~(scaler.present /\ scaler.hasNames) /\ ~(model.present /\ model.hasNames)) =>
           /\ ~run.expected.known
           /\ run.aligned = req.features
           /\ req.features = <<>> =>
                /\ Len(run.row) = 0
                /\ resp.status = 200
                /\ resp.keys \in {PredictionKeys, ErrorTraceKeys, {"error"}}

\* C10 witness: a loaded model without names, no schema, the empty payload.
C10_Witness ==
    /\ ObjectAnswered /\ model.present /\ ~run.expected.known
    /\ req.features = <<>> /\ run.scaled

====
